---- MODULE Spec2Model ----
(***************************************************************************)
(* State-machine model of the WhatsApp colour-analysis bot:                *)
(*   - ConversationManager (session store, periodic flush, load at boot),  *)
(*   - the message handlers of server.js (handleMessage and its callees),  *)
(*   - PaymentManager (orders, webhook, verification, polling),            *)
(*   - the /api/verify-payment route of routes/payment.js.                 *)
(* Every `await` of the source is a suspension point: a handler is a       *)
(* record with a program counter, and other handlers may run between two   *)
(* of its steps.  Conversation and payment objects live in JavaScript Maps *)
(* and are mutated in place, so a handler's writes are visible in the      *)
(* store as soon as they are made, before saveConversation.                *)
(***************************************************************************)
EXTENDS Integers, Sequences, FiniteSets, TLC

\* ---------------------------------------------------------------- bounds
MaxTime == 2          \* values of the clock (Date.now())
MaxAge == 3           \* values of the clock where conversations grow old
MaxHandlers == 2      \* async handlers that may be in flight together
MaxOrders == 2        \* order ids the gateway mints
MaxMessageCount == 5  \* messages accepted per conversation
MaxTriggers == 2      \* post-payment triggers counted per order
MaxGenerations == 2   \* generatePDF calls counted per user
MaxFailures == 1      \* collaborator calls that fail (throw, time out)

Users == {"u1"}
AllUsers == Users \cup {"u2"}
Analyses == {"A1"}
PaymentIds == {"pay_1"}
OrderIds == 1..MaxOrders
UnknownOrder == MaxOrders + 1      \* an order id that is never in the store
Slots == 1..MaxHandlers

NoAnalysis == "null"
NoLink == 0
NoTime == 0

\* ------------------------------------------------------- text classifier
\* A text is a sequence of characters; the handlers test
\* text.toLowerCase().trim() with String.includes and ===.
LowerOf(c) ==
  CASE c = "R" -> "r"
    [] c = "H" -> "h"
    [] c = "P" -> "p"
    [] OTHER -> c

toLowerCase(s) == [i \in 1..Len(s) |-> LowerOf(s[i])]

RECURSIVE trimStart(_)
trimStart(s) == IF s # <<>> /\ Head(s) = " " THEN trimStart(Tail(s)) ELSE s

RECURSIVE trimEnd(_)
trimEnd(s) ==
  IF s # <<>> /\ s[Len(s)] = " " THEN trimEnd(SubSeq(s, 1, Len(s) - 1)) ELSE s

trim(s) == trimEnd(trimStart(s))

includes(s, k) ==
  \E i \in 1..(Len(s) - Len(k) + 1) : SubSeq(s, i, i + Len(k) - 1) = k

Texts ==
  { <<"H", "i">>,
    <<"s", "t", "a", "r", "t">>,
    <<" ", "R", "e", "a", "d", "y", " ">>,
    <<"y", "e", "s">>,
    <<"1">>, <<"2">>, <<"3">>,
    <<"b", "u", "y">>,
    <<"p", "d", "f">>,
    <<"n", "e", "w">>,
    <<"s", "h", "a", "r", "e">>,
    <<"P", "a", "i", "d">>,
    <<"d", "o", "n", "e">>,
    <<"o", "k">>,
    <<"n", "o", "t", "h", "i", "n", "g">>,
    <<>> }

\* ------------------------------------------------------------ signatures
\* HMAC-SHA256 in the symbolic model: a digest is determined by the key and
\* the signed bytes, and two digests are equal only if both agree.
KeySecret == "RAZORPAY_KEY_SECRET"
WebhookSecret == "RAZORPAY_WEBHOOK_SECRET"
Hmac(secret, data) == <<"hmac", secret, data>>
Forged == <<"hmac", "attacker", <<>> >>

isSignatureValid_open(signature, expectedSign) == TRUE

isSignatureValid(signature, expectedSign) == signature = expectedSign

WebhookEvents == {"payment.captured", "payment.failed", "order.paid"}

\* payload of a gateway webhook: the event name and the payment entity
WebhookPayloads ==
  [event : WebhookEvents, order_id : OrderIds \cup {UnknownOrder},
   id : PaymentIds]

WebhookSignatures(payload) ==
  { Hmac(WebhookSecret, payload), Hmac(KeySecret, payload), Forged }

VerifySignatures(orderId, paymentId) ==
  { Hmac(KeySecret, <<orderId, "|", paymentId>>),
    Hmac(KeySecret, <<UnknownOrder, "|", paymentId>>),
    Forged }

\* ----------------------------------------------------------------- state
VARIABLES
  conversations,       \* ConversationManager.conversations : phone -> record
  disk,                \* contents of data/conversations.json
  pendingPayments,     \* PaymentManager.pendingPayments : orderId -> record
  nextOrder,           \* next order id the gateway will mint
  handlers,            \* in-flight async handlers, by slot
  now,                 \* the clock
  lastEvent,           \* class of the step last taken
  postPaymentTriggers, \* calls of triggerPostPaymentActions, per order
  pdfGenerations,      \* calls of generatePDF, per user
  failures             \* collaborator calls that have failed so far

vars == <<conversations, disk, pendingPayments, nextOrder, handlers, now,
          lastEvent, postPaymentTriggers, pdfGenerations, failures>>

Idle ==
  [kind |-> "idle", user |-> "none", pc |-> "idle", next |-> "keep",
   order |-> 0, pay |-> "none", snap |-> NoAnalysis, url |-> FALSE]

Busy(h) == handlers[h].kind # "idle"

\* An inbound request takes the first free slot of the pool it is given;
\* the size of the pool is the number of requests served concurrently.
FreeSlot(pool, h) == ~Busy(h) /\ \A g \in pool : g < h => Busy(g)

\* What lastEvent keeps of a step: whether it was an inbound gateway event
\* whose signature does not match, a failure of the photo analysis, a
\* createPaymentLink that threw, a verifyPayment that returned success, or
\* anything else.
RejectKinds == {"webhook", "verify"}
ImageFailureKinds ==
  {"img_ack_failed", "img_no_url", "img_download_failed",
   "img_analyze_failed", "img_analyze_threw", "img_send_failed"}

Evt(kind, user, order, sigOk) ==
  IF kind \in RejectKinds /\ ~sigOk THEN "rejected"
  ELSE IF kind \in ImageFailureKinds THEN "image_failed"
  ELSE IF kind \in {"order_failed", "verified"} THEN kind
  ELSE "other"

\* Map.set
Put(map, key, value) ==
  [k \in DOMAIN map \cup {key} |-> IF k = key THEN value ELSE map[k]]

Init ==
  /\ conversations = << >>
  /\ disk = << >>
  /\ pendingPayments = << >>
  /\ nextOrder = 1
  /\ handlers = [h \in Slots |-> Idle]
  /\ now = 1
  /\ lastEvent = Evt("boot", "none", 0, TRUE)
  /\ postPaymentTriggers = [o \in OrderIds |-> 0]
  /\ pdfGenerations = [u \in AllUsers |-> 0]
  /\ failures = 0

\* ------------------------------------------------- ConversationManager
createConversation_welcomed(t) ==
  [state |-> "guide_shown", analysis |-> NoAnalysis, paymentLink |-> NoLink,
   pdfGenerated |-> FALSE, messageCount |-> 0, lastActive |-> t]

createConversation(t) ==
  [state |-> "initial", analysis |-> NoAnalysis, paymentLink |-> NoLink,
   pdfGenerated |-> FALSE, messageCount |-> 0, lastActive |-> t]

saveConversation(map, phoneNumber, conversation, t) ==
  Put(map, phoneNumber,
      [conversation EXCEPT !.lastActive = t,
                           !.messageCount = conversation.messageCount + 1])

\* setInterval(saveAllConversations, 5 min): the file gets the whole Map.
saveAllConversations ==
  /\ disk # conversations
  /\ disk' = conversations
  /\ lastEvent' = Evt("flush", "none", 0, TRUE)
  /\ UNCHANGED <<conversations, pendingPayments, nextOrder, handlers, now,
                 postPaymentTriggers, pdfGenerations, failures>>

\* Process restart: the constructors run again.  loadConversations reads
\* the file; pendingPayments is a fresh Map; pending promises are gone.
loadConversations ==
  /\ conversations' = disk
  /\ pendingPayments' = << >>
  /\ handlers' = [h \in Slots |-> Idle]
  /\ lastEvent' = Evt("restart", "none", 0, TRUE)
  /\ UNCHANGED <<disk, nextOrder, now, postPaymentTriggers, pdfGenerations, failures>>

\* setInterval(cleanupOldConversations, 1 day).  thirtyDays is the
\* retention in units of the clock.  No request stays suspended for
\* thirty days, so no handler holds a conversation that is removed.
thirtyDays == 1

OldConversations ==
  {u \in DOMAIN conversations :
     /\ conversations[u].lastActive < now - thirtyDays
     /\ conversations[u].analysis = NoAnalysis
     /\ ~conversations[u].pdfGenerated}

cleanupOldConversations ==
  /\ \A h \in Slots : Busy(h) => handlers[h].user \notin OldConversations
  /\ conversations' =
       [u \in DOMAIN conversations \ OldConversations |-> conversations[u]]
  /\ disk' = IF OldConversations # {} THEN conversations' ELSE disk
  /\ lastEvent' = Evt("cleanup", "none", 0, TRUE)
  /\ UNCHANGED <<pendingPayments, nextOrder, handlers, now,
                 postPaymentTriggers, pdfGenerations, failures>>

\* ConversationManager.createConversation called by itself, while no
\* handler holds the user's conversation.
createConversationCalled(phoneNumber) ==
  /\ \A h \in Slots : Busy(h) => handlers[h].user # phoneNumber
  /\ conversations' =
       Put(conversations, phoneNumber, createConversation(now))
  /\ lastEvent' = Evt("create", phoneNumber, 0, TRUE)
  /\ UNCHANGED <<disk, pendingPayments, nextOrder, handlers, now,
                 postPaymentTriggers, pdfGenerations, failures>>

CreateCalled == \E phoneNumber \in Users : createConversationCalled(phoneNumber)

\* Time passes, up to a limit.
TimePasses(limit) ==
  /\ now < limit
  /\ now' = now + 1
  /\ lastEvent' = Evt("tick", "none", 0, TRUE)
  /\ UNCHANGED <<conversations, disk, pendingPayments, nextOrder, handlers,
                 postPaymentTriggers, pdfGenerations, failures>>

Tick == TimePasses(MaxTime)

\* long enough for a conversation to get older than the retention
MonthPasses == TimePasses(MaxAge)

\* ------------------------------------------------------- PaymentManager
updatePaymentFromWebhook_all(map, orderId, paymentId, t) ==
  IF orderId \in DOMAIN map
    THEN [o \in DOMAIN map |->
            [map[o] EXCEPT !.status = "completed", !.paymentId = paymentId,
                           !.completedAt = t]]
    ELSE map

updatePaymentFromWebhook(map, orderId, paymentId, t) ==
  IF orderId \in DOMAIN map
    THEN Put(map, orderId,
             [map[orderId] EXCEPT !.status = "completed",
                                  !.paymentId = paymentId,
                                  !.completedAt = t])
    ELSE map

markPaymentFailed_noReason(map, orderId, reason, t) ==
  IF orderId \in DOMAIN map
    THEN Put(map, orderId, [map[orderId] EXCEPT !.status = "failed"])
    ELSE map

markPaymentFailed(map, orderId, reason, t) ==
  IF orderId \in DOMAIN map
    THEN Put(map, orderId,
             [map[orderId] EXCEPT !.status = "failed",
                                  !.failureReason = reason])
    ELSE map

\* handleWebhook(payload, signature): synchronous.
handleWebhook(payload, signature) ==
  /\ payload.event = "payment.captured" /\ payload.order_id \in OrderIds
       => postPaymentTriggers[payload.order_id] < MaxTriggers
  /\ lastEvent' = Evt("webhook", "none", payload.order_id,
                      signature = Hmac(WebhookSecret, payload))
  /\ IF ~isSignatureValid(signature, Hmac(WebhookSecret, payload))
       THEN UNCHANGED <<pendingPayments, postPaymentTriggers>>
       ELSE CASE payload.event = "payment.captured" ->
                   /\ pendingPayments' =
                        updatePaymentFromWebhook(pendingPayments,
                                                 payload.order_id,
                                                 payload.id, now)
                   /\ postPaymentTriggers' =
                        IF payload.order_id \in DOMAIN pendingPayments
                          THEN [postPaymentTriggers EXCEPT
                                  ![payload.order_id] = @ + 1]
                          ELSE postPaymentTriggers
              [] payload.event = "payment.failed" ->
                   /\ pendingPayments' =
                        markPaymentFailed(pendingPayments, payload.order_id,
                                          "Unknown error", now)
                   /\ UNCHANGED postPaymentTriggers
              [] OTHER -> UNCHANGED <<pendingPayments, postPaymentTriggers>>
  /\ UNCHANGED <<conversations, disk, nextOrder, handlers, now,
                 pdfGenerations, failures>>

\* the gateway reports a captured payment, correctly signed
CapturedArrives ==
  \E payload \in WebhookPayloads :
    /\ payload.event = "payment.captured"
    /\ handleWebhook(payload, Hmac(WebhookSecret, payload))

WebhookArrives ==
  \E payload \in WebhookPayloads :
    \E signature \in WebhookSignatures(payload) :
      handleWebhook(payload, signature)

\* --------------------------------------------------- server.js handlers
\* What the synchronous prefix of a handler leaves behind: the mutated
\* conversation object, the await the handler is suspended at (pc), the
\* state it assigns when that await resolves (next), and its locals.
Plan(conversation, pc, next) ==
  [conv |-> conversation, pc |-> pc, next |-> next,
   snap |-> conversation.analysis]

handlePDFRequest(conversation) ==
  IF conversation.analysis = NoAnalysis
    THEN Plan(conversation, "send_then_save", "keep")
    ELSE Plan(conversation, "pdf_create", "keep")

resetAnalysis(conversation) ==
  Plan([conversation EXCEPT !.state = "guide_shown",
                            !.analysis = NoAnalysis,
                            !.paymentLink = NoLink],
       "send_then_save", "keep")

shareResults(conversation) == Plan(conversation, "send_then_save", "keep")

handleTextMessage(text, conversation) ==
  LET lowerText == trim(toLowerCase(text)) IN
  CASE conversation.state \in {"initial", "welcome"} ->
         Plan(conversation, "send_then_save", "guide_shown")
    [] conversation.state = "guide_shown" ->
         IF \/ includes(lowerText, <<"r", "e", "a", "d", "y">>)
            \/ includes(lowerText, <<"y", "e", "s">>)
            \/ includes(lowerText, <<"c", "o", "n", "t", "i", "n", "u", "e">>)
            \/ lowerText = <<"1">>
           THEN Plan(conversation, "send_then_save", "waiting_for_photo")
           ELSE Plan(conversation, "send_then_save", "keep")
    [] conversation.state = "waiting_for_photo" ->
         Plan(conversation, "send_then_save", "keep")
    [] conversation.state = "analyzing" ->
         Plan(conversation, "send_then_save", "keep")
    [] conversation.state = "results_shown" ->
         IF \/ includes(lowerText, <<"p", "d", "f">>)
            \/ includes(lowerText, <<"g", "u", "i", "d", "e">>)
            \/ includes(lowerText, <<"b", "u", "y">>)
            \/ lowerText = <<"1">>
           THEN handlePDFRequest(conversation)
         ELSE IF \/ includes(lowerText, <<"n", "e", "w">>)
                 \/ includes(lowerText, <<"a", "n", "o", "t", "h", "e", "r">>)
                 \/ includes(lowerText, <<"a", "g", "a", "i", "n">>)
                 \/ lowerText = <<"2">>
           THEN resetAnalysis(conversation)
         ELSE IF \/ includes(lowerText, <<"s", "h", "a", "r", "e">>)
                 \/ lowerText = <<"3">>
           THEN shareResults(conversation)
         ELSE Plan(conversation, "send_then_save", "keep")
    [] conversation.state = "payment_pending" ->
         IF \/ includes(lowerText, <<"p", "a", "i", "d">>)
            \/ includes(lowerText, <<"p", "a", "y", "m", "e", "n", "t">>)
            \/ includes(lowerText, <<"d", "o", "n", "e">>)
           THEN Plan(conversation, "chk_send", "keep")
           ELSE Plan(conversation, "send_then_save", "keep")
    [] OTHER -> Plan(conversation, "send_then_save", "guide_shown")

handleImageMessage_always(conversation) ==
  Plan(conversation, "img_ack", "keep")

handleImageMessage(conversation) ==
  IF conversation.state # "waiting_for_photo"
    THEN Plan(conversation, "send_then_save", "keep")
    ELSE Plan(conversation, "img_ack", "keep")

\* the words handleTextMessage looks for, in any state
Keywords ==
  { <<"s", "t", "a", "r", "t">>, <<"b", "e", "g", "i", "n">>, <<"h", "i">>,
    <<"h", "e", "l", "l", "o">>, <<"r", "e", "a", "d", "y">>,
    <<"y", "e", "s">>, <<"c", "o", "n", "t", "i", "n", "u", "e">>,
    <<"p", "d", "f">>, <<"g", "u", "i", "d", "e">>, <<"b", "u", "y">>,
    <<"n", "e", "w">>, <<"a", "n", "o", "t", "h", "e", "r">>,
    <<"a", "g", "a", "i", "n">>, <<"s", "h", "a", "r", "e">>,
    <<"p", "a", "i", "d">>, <<"p", "a", "y", "m", "e", "n", "t">>,
    <<"d", "o", "n", "e">> }

\* the replies it compares with ===
Choices == { <<"1">>, <<"2">>, <<"3">> }

\* a text in which handleTextMessage recognises nothing
isUnknownText(text) ==
  LET lowerText == trim(toLowerCase(text)) IN
  /\ \A k \in Keywords : ~includes(lowerText, k)
  /\ lowerText \notin Choices

ButtonIds ==
  {"start_analysis", "1", "get_pdf", "2", "new_analysis", "3",
   "share_results", "4", "undefined"}

handleInteractiveMessage(buttonId, conversation) ==
  CASE buttonId \in {"start_analysis", "1"} ->
         Plan(conversation, "send_then_save", "waiting_for_photo")
    [] buttonId \in {"get_pdf", "2"} -> handlePDFRequest(conversation)
    [] buttonId \in {"new_analysis", "3"} -> resetAnalysis(conversation)
    [] buttonId \in {"share_results", "4"} -> shareResults(conversation)
    [] OTHER -> Plan(conversation, "send_then_save", "keep")

\* Inbound messages as handleMessage receives them.  body = FALSE is a text
\* message whose body is undefined, interactive = FALSE a message of type
\* interactive without the interactive field (what the aisensy route
\* builds): both make the callee throw a TypeError before its first await.
Messages ==
  [type : {"text"}, body : {TRUE}, text : Texts, url : {FALSE},
   interactive : {FALSE}, buttonId : {"undefined"}]
  \cup
  [type : {"text"}, body : {FALSE}, text : {<<>>}, url : {FALSE},
   interactive : {FALSE}, buttonId : {"undefined"}]
  \cup
  [type : {"image"}, body : {FALSE}, text : {<<>>}, url : BOOLEAN,
   interactive : {FALSE}, buttonId : {"undefined"}]
  \cup
  [type : {"interactive"}, body : {FALSE}, text : {<<>>}, url : {FALSE},
   interactive : {TRUE}, buttonId : ButtonIds]
  \cup
  [type : {"interactive", "other"}, body : {FALSE}, text : {<<>>},
   url : {FALSE}, interactive : {FALSE}, buttonId : {"undefined"}]

\* a text that handleTextMessage takes as a request for the guide
isBuyText(text) ==
  LET lowerText == trim(toLowerCase(text)) IN
  \/ includes(lowerText, <<"p", "d", "f">>)
  \/ includes(lowerText, <<"g", "u", "i", "d", "e">>)
  \/ includes(lowerText, <<"b", "u", "y">>)
  \/ lowerText = <<"1">>

\* the sample texts that are such requests
BuyTexts == {text \in Texts : isBuyText(text)}

\* a text that handleTextMessage takes as a request to start over
isRestartText(text) ==
  LET lowerText == trim(toLowerCase(text)) IN
  \/ includes(lowerText, <<"n", "e", "w">>)
  \/ includes(lowerText, <<"a", "n", "o", "t", "h", "e", "r">>)
  \/ includes(lowerText, <<"a", "g", "a", "i", "n">>)
  \/ lowerText = <<"2">>

\* a text that handleTextMessage takes as a request to check the payment
isCheckText(text) ==
  LET lowerText == trim(toLowerCase(text)) IN
  \/ includes(lowerText, <<"p", "a", "i", "d">>)
  \/ includes(lowerText, <<"p", "a", "y", "m", "e", "n", "t">>)
  \/ includes(lowerText, <<"d", "o", "n", "e">>)

\* the messages that are routed to resetAnalysis: a text asking to start
\* over, the new_analysis button
RestartMessages ==
  {message \in Messages :
     \/ message.type = "text" /\ message.body /\ isRestartText(message.text)
     \/ /\ message.type = "interactive" /\ message.interactive
        /\ message.buttonId \in {"new_analysis", "3"}}

\* the messages that are routed to checkPaymentStatus
CheckMessages ==
  {message \in Messages :
     message.type = "text" /\ message.body /\ isCheckText(message.text)}

ImageMessages == {message \in Messages : message.type = "image"}

\* a text message with its body, as the route builds it
TextMessage(text) ==
  [type |-> "text", body |-> TRUE, text |-> text, url |-> FALSE,
   interactive |-> FALSE, buttonId |-> "undefined"]

Dispatch(message, conversation) ==
  CASE message.type = "text" ->
         IF message.body
           THEN handleTextMessage(message.text, conversation)
           ELSE Plan(conversation, "catch_send", "keep")
    [] message.type = "image" -> handleImageMessage(conversation)
    [] message.type = "interactive" ->
         IF message.interactive
           THEN handleInteractiveMessage(message.buttonId, conversation)
           ELSE Plan(conversation, "catch_send", "keep")
    [] OTHER -> Plan(conversation, "send_then_save", "keep")

\* handleMessage up to its first await.
handleMessage(phoneNumber, message, pool) ==
  /\ phoneNumber \in DOMAIN conversations
       => conversations[phoneNumber].messageCount < MaxMessageCount
  /\ pdfGenerations[phoneNumber] < MaxGenerations
  /\ \E h \in pool :
       /\ FreeSlot(pool, h)
       /\ LET existing == IF phoneNumber \in DOMAIN conversations
                            THEN conversations[phoneNumber]
                            ELSE createConversation(now)
              conversation == [existing EXCEPT !.lastActive = now]
              plan == Dispatch(message, conversation)
          IN /\ conversations' = Put(conversations, phoneNumber, plan.conv)
             /\ handlers' =
                  [handlers EXCEPT ![h] =
                     [kind |-> "message", user |-> phoneNumber,
                      pc |-> plan.pc, next |-> plan.next, order |-> 0,
                      pay |-> "none", snap |-> plan.snap,
                      url |-> message.url]]
  /\ lastEvent' = Evt(message.type, phoneNumber, 0, TRUE)
  /\ UNCHANGED <<disk, pendingPayments, nextOrder, now, postPaymentTriggers,
                 pdfGenerations, failures>>

MessageArrives ==
  \E phoneNumber \in Users : \E message \in Messages :
    handleMessage(phoneNumber, message, Slots)

\* one message at a time, from any of several users
MessageArrivesAll ==
  \E phoneNumber \in AllUsers : \E message \in Messages :
    handleMessage(phoneNumber, message, {1})

\* one message at a time
MessageArrivesSeq ==
  \E phoneNumber \in Users : \E message \in Messages :
    handleMessage(phoneNumber, message, {1})

\* ------------------------------------------ resuming a suspended handler
Finish(h) == handlers' = [handlers EXCEPT ![h] = Idle]

Goto(h, pc) == handlers' = [handlers EXCEPT ![h].pc = pc]

SetState(h, state) ==
  conversations' = [conversations EXCEPT ![handlers[h].user].state = state]

\* handleMessage after its callee returned: saveConversation, done.
SaveAndFinish(h, conversation) ==
  /\ conversations' =
       saveConversation(conversations, handlers[h].user, conversation, now)
  /\ Finish(h)

\* outcomes in which a collaborator (messaging API, media download,
\* analyzer) threw or reported an error
FailureKinds ==
  {"send_failed", "img_ack_failed", "img_download_failed",
   "img_analyze_failed", "img_analyze_threw", "img_send_failed"}

Step(h, kind) ==
  /\ lastEvent' = Evt(kind, handlers[h].user, handlers[h].order, TRUE)
  /\ IF kind \in FailureKinds
       THEN failures < MaxFailures /\ failures' = failures + 1
       ELSE UNCHANGED failures

\* A handler whose last await is a send, followed at most by one assignment
\* of conversation.state.  A throw reaches the catch of handleMessage.
SendThenSave(h) ==
  /\ handlers[h].pc = "send_then_save"
  /\ \/ /\ LET conversation == conversations[handlers[h].user] IN
             SaveAndFinish(h,
               IF handlers[h].next = "keep"
                 THEN conversation
                 ELSE [conversation EXCEPT !.state = handlers[h].next])
        /\ Step(h, "sent")
     \/ /\ Goto(h, "catch_send")
        /\ Step(h, "send_failed")
        /\ UNCHANGED conversations
  /\ UNCHANGED <<disk, pendingPayments, nextOrder, now, postPaymentTriggers,
                 pdfGenerations>>

\* A send inside a try whose catch sends a fallback message and returns.
TrySend(h) ==
  /\ handlers[h].pc = "try_send"
  /\ \/ /\ SaveAndFinish(h, conversations[handlers[h].user])
        /\ Step(h, "sent")
     \/ /\ Goto(h, "send_then_save")
        /\ Step(h, "send_failed")
        /\ UNCHANGED conversations
  /\ UNCHANGED <<disk, pendingPayments, nextOrder, now, postPaymentTriggers,
                 pdfGenerations>>

\* catch of handleMessage: one more send, no saveConversation; if that send
\* throws too the route answers 500.
CatchSend(h) ==
  /\ handlers[h].pc = "catch_send"
  /\ Finish(h)
  /\ Step(h, "caught")
  /\ UNCHANGED <<conversations, disk, pendingPayments, nextOrder, now,
                 postPaymentTriggers, pdfGenerations>>

\* ---- handleImageMessage, state waiting_for_photo
\* catch block of handleImageMessage
imageFailed_keep(conversation) == conversation

imageFailed(conversation) ==
  [conversation EXCEPT !.state = "waiting_for_photo"]

\* analysisResult.success: the record is stored on the conversation
analysisSucceeded_lost(conversation, analysis) ==
  [conversation EXCEPT !.state = "results_shown"]

analysisSucceeded(conversation, analysis) ==
  [conversation EXCEPT !.analysis = analysis, !.state = "results_shown"]

ImageFail(h, kind) ==
  /\ conversations' =
       [conversations EXCEPT ![handlers[h].user] =
          imageFailed(conversations[handlers[h].user])]
  /\ Goto(h, "img_fail_send")
  /\ Step(h, kind)

ImgAck(h) ==
  /\ handlers[h].pc = "img_ack"
  /\ \/ /\ handlers[h].url
        /\ SetState(h, "analyzing")
        /\ Goto(h, "img_download")
        /\ Step(h, "img_started")
     \/ /\ ~handlers[h].url
        /\ ImageFail(h, "img_no_url")
     \/ ImageFail(h, "img_ack_failed")
  /\ UNCHANGED <<disk, pendingPayments, nextOrder, now, postPaymentTriggers,
                 pdfGenerations>>

ImgDownload(h) ==
  /\ handlers[h].pc = "img_download"
  /\ \/ /\ Goto(h, "img_analyze")
        /\ Step(h, "img_downloaded")
        /\ UNCHANGED conversations
     \/ ImageFail(h, "img_download_failed")
  /\ UNCHANGED <<disk, pendingPayments, nextOrder, now, postPaymentTriggers,
                 pdfGenerations>>

ImgAnalyze(h) ==
  /\ handlers[h].pc = "img_analyze"
  /\ \/ \E analysis \in Analyses :
          /\ conversations' =
               [conversations EXCEPT ![handlers[h].user] =
                  analysisSucceeded(conversations[handlers[h].user],
                                    analysis)]
          /\ Goto(h, "img_try_send")
          /\ Step(h, "img_analyzed")
     \/ /\ conversations' =
             [conversations EXCEPT ![handlers[h].user] =
                imageFailed(conversations[handlers[h].user])]
        /\ Goto(h, "img_try_send")
        /\ Step(h, "img_analyze_failed")
     \/ ImageFail(h, "img_analyze_threw")
  /\ UNCHANGED <<disk, pendingPayments, nextOrder, now, postPaymentTriggers,
                 pdfGenerations>>

\* sendAnalysisResults, or the "couldn't analyze" message: inside the try.
ImgTrySend(h) ==
  /\ handlers[h].pc = "img_try_send"
  /\ \/ /\ SaveAndFinish(h, conversations[handlers[h].user])
        /\ Step(h, "sent")
     \/ ImageFail(h, "img_send_failed")
  /\ UNCHANGED <<disk, pendingPayments, nextOrder, now, postPaymentTriggers,
                 pdfGenerations>>

ImgFailSend(h) ==
  /\ handlers[h].pc = "img_fail_send"
  /\ \/ /\ SaveAndFinish(h, conversations[handlers[h].user])
        /\ Step(h, "sent")
     \/ /\ Goto(h, "catch_send")
        /\ Step(h, "send_failed")
        /\ UNCHANGED conversations
  /\ UNCHANGED <<disk, pendingPayments, nextOrder, now, postPaymentTriggers,
                 pdfGenerations>>

\* ---- handlePDFRequest / PaymentManager.createPaymentLink
createPaymentLink_paid(map, orderId, phoneNumber, analysis) ==
  Put(map, orderId,
      [orderId |-> orderId, phoneNumber |-> phoneNumber,
       status |-> "completed", analysis |-> analysis, paymentId |-> "none",
       completedAt |-> NoTime, failureReason |-> "none"])

createPaymentLink(map, orderId, phoneNumber, analysis) ==
  Put(map, orderId,
      [orderId |-> orderId, phoneNumber |-> phoneNumber, status |-> "created",
       analysis |-> analysis, paymentId |-> "none", completedAt |-> NoTime,
       failureReason |-> "none"])

\* razorpay.orders.create rejected: createPaymentLink throws before
\* pendingPayments.set
createPaymentLinkThrows_stored(map, orderId, phoneNumber, analysis) ==
  createPaymentLink(map, orderId, phoneNumber, analysis)

createPaymentLinkThrows(map, orderId, phoneNumber, analysis) == map

PdfCreate(h) ==
  /\ handlers[h].pc = "pdf_create"
  /\ \/ /\ nextOrder <= MaxOrders
        /\ pendingPayments' =
             createPaymentLink(pendingPayments, nextOrder, handlers[h].user,
                               handlers[h].snap)
        /\ nextOrder' = nextOrder + 1
        /\ handlers' = [handlers EXCEPT ![h].pc = "pdf_send",
                                        ![h].order = nextOrder]
        /\ lastEvent' = Evt("order_created", handlers[h].user, nextOrder, TRUE)
        /\ UNCHANGED failures
     \/ /\ pendingPayments' =
             createPaymentLinkThrows(pendingPayments, nextOrder,
                                     handlers[h].user, handlers[h].snap)
        /\ Goto(h, "send_then_save")
        /\ Step(h, "order_failed")
        /\ UNCHANGED nextOrder
  /\ UNCHANGED <<conversations, disk, now, postPaymentTriggers,
                 pdfGenerations>>

PdfSend(h) ==
  /\ handlers[h].pc = "pdf_send"
  /\ \/ /\ SaveAndFinish(h,
             [conversations[handlers[h].user] EXCEPT
                !.state = "payment_pending",
                !.paymentLink = handlers[h].order])
        /\ Step(h, "link_sent")
     \/ /\ Goto(h, "send_then_save")
        /\ Step(h, "send_failed")
        /\ UNCHANGED conversations
  /\ UNCHANGED <<disk, pendingPayments, nextOrder, now, postPaymentTriggers,
                 pdfGenerations>>

\* ---- checkPaymentStatus (server.js)
PaymentsOf(map, phoneNumber) ==
  {o \in DOMAIN map : map[o].phoneNumber = phoneNumber}

\* first entry of the Map, in insertion order, with that phone number;
\* 0 stands for null
getPaymentByPhoneNumber(map, phoneNumber) ==
  IF PaymentsOf(map, phoneNumber) = {}
    THEN 0
    ELSE CHOOSE o \in PaymentsOf(map, phoneNumber) :
           \A q \in PaymentsOf(map, phoneNumber) : o <= q

ChkSend(h) ==
  /\ handlers[h].pc = "chk_send"
  /\ \/ /\ LET paymentData ==
               getPaymentByPhoneNumber(pendingPayments, handlers[h].user)
           IN IF paymentData # 0
                 /\ pendingPayments[paymentData].status = "completed"
                THEN Goto(h, "chk_confirm_send")
                ELSE Goto(h, "try_send")
        /\ Step(h, "checked")
     \/ /\ Goto(h, "catch_send")
        /\ Step(h, "send_failed")
  /\ UNCHANGED <<conversations, disk, pendingPayments, nextOrder, now,
                 postPaymentTriggers, pdfGenerations>>

\* the analysis generatePDF is given: generatePDF(conversation.analysis, ..)
documentSource(conversation, paymentData) == conversation.analysis

\* "Payment confirmed" sent; generatePDF is called next.
ChkConfirmSend(h) ==
  /\ handlers[h].pc = "chk_confirm_send"
  /\ \/ /\ pdfGenerations' =
             [pdfGenerations EXCEPT ![handlers[h].user] = @ + 1]
        /\ Goto(h, "chk_final_send")
        /\ Step(h, "pdf_generated")
     \/ /\ Goto(h, "send_then_save")
        /\ Step(h, "send_failed")
        /\ UNCHANGED pdfGenerations
  /\ UNCHANGED <<conversations, disk, pendingPayments, nextOrder, now,
                 postPaymentTriggers>>

ChkFinalSend(h) ==
  /\ handlers[h].pc = "chk_final_send"
  /\ \/ /\ SaveAndFinish(h,
             [conversations[handlers[h].user] EXCEPT
                !.state = "completed", !.pdfGenerated = TRUE])
        /\ Step(h, "pdf_sent")
     \/ /\ Goto(h, "send_then_save")
        /\ Step(h, "send_failed")
        /\ UNCHANGED conversations
  /\ UNCHANGED <<disk, pendingPayments, nextOrder, now, postPaymentTriggers,
                 pdfGenerations>>

\* ---- POST /api/verify-payment and PaymentManager.verifyPayment
verifyPayment(orderId, paymentId, signature, pool) ==
  /\ \A u \in DOMAIN conversations :
       orderId \in DOMAIN pendingPayments
         /\ pendingPayments[orderId].phoneNumber = u
       => conversations[u].messageCount < MaxMessageCount
  /\ lastEvent' =
       Evt("verify", "none", orderId,
           signature = Hmac(KeySecret, <<orderId, "|", paymentId>>))
  /\ \E h \in pool :
       /\ FreeSlot(pool, h)
       /\ IF ~isSignatureValid(signature,
                               Hmac(KeySecret, <<orderId, "|", paymentId>>))
            THEN UNCHANGED handlers
            ELSE handlers' =
                   [handlers EXCEPT ![h] =
                      [Idle EXCEPT !.kind = "verify", !.pc = "vp_fetch",
                                   !.order = orderId, !.pay = paymentId]]
  /\ UNCHANGED <<conversations, disk, pendingPayments, nextOrder, now,
                 postPaymentTriggers, pdfGenerations, failures>>

VerifyArrives ==
  \E orderId \in OrderIds \cup {UnknownOrder} : \E paymentId \in PaymentIds :
    \E signature \in VerifySignatures(orderId, paymentId) :
      verifyPayment(orderId, paymentId, signature, Slots)

VerifyArrivesSeq ==
  \E orderId \in OrderIds \cup {UnknownOrder} : \E paymentId \in PaymentIds :
    \E signature \in VerifySignatures(orderId, paymentId) :
      verifyPayment(orderId, paymentId, signature, {1})

\* razorpay.payments.fetch resolved or rejected
VpFetch(h) ==
  /\ handlers[h].pc = "vp_fetch"
  /\ \/ /\ Finish(h)
        /\ Step(h, "verify_failed")
        /\ UNCHANGED pendingPayments
     \/ /\ pendingPayments' =
             updatePaymentFromWebhook(pendingPayments, handlers[h].order,
                                      handlers[h].pay, now)
        /\ IF handlers[h].order \in DOMAIN pendingPayments
             THEN handlers' =
                    [handlers EXCEPT
                       ![h].pc = "vp_send",
                       ![h].user =
                          pendingPayments[handlers[h].order].phoneNumber]
             ELSE Finish(h)
        /\ Step(h, "verified")
  /\ UNCHANGED <<conversations, disk, nextOrder, now, postPaymentTriggers,
                 pdfGenerations>>

\* the route, after its "Payment successful" message
VpSend(h) ==
  /\ handlers[h].pc = "vp_send"
  /\ \/ /\ IF handlers[h].user \in DOMAIN conversations
             THEN conversations' =
                    saveConversation(conversations, handlers[h].user,
                      [conversations[handlers[h].user] EXCEPT
                         !.state = "payment_completed"], now)
             ELSE UNCHANGED conversations
        /\ Step(h, "verify_saved")
     \/ /\ UNCHANGED conversations
        /\ Step(h, "send_failed")
  /\ Finish(h)
  /\ UNCHANGED <<disk, pendingPayments, nextOrder, now, postPaymentTriggers,
                 pdfGenerations>>

\* ---- PaymentManager.checkPaymentStatus (polling the gateway)
PaymentManager_checkPaymentStatus(orderId, pool) ==
  /\ lastEvent' = Evt("poll", "none", orderId, TRUE)
  /\ \E h \in pool :
       /\ FreeSlot(pool, h)
       /\ IF orderId \in DOMAIN pendingPayments
             /\ pendingPayments[orderId].status # "completed"
            THEN handlers' =
                   [handlers EXCEPT ![h] =
                      [Idle EXCEPT !.kind = "poll", !.pc = "poll_order",
                                   !.order = orderId]]
            ELSE UNCHANGED handlers
  /\ UNCHANGED <<conversations, disk, pendingPayments, nextOrder, now,
                 postPaymentTriggers, pdfGenerations, failures>>

PollArrives ==
  \E orderId \in OrderIds \cup {UnknownOrder} :
    PaymentManager_checkPaymentStatus(orderId, Slots)

PollArrivesSeq ==
  \E orderId \in OrderIds \cup {UnknownOrder} :
    PaymentManager_checkPaymentStatus(orderId, {1})

\* razorpay.orders.fetch resolved or rejected
PollOrder(h) ==
  /\ handlers[h].pc = "poll_order"
  /\ \/ /\ Finish(h)
        /\ Step(h, "poll_unpaid")
     \/ /\ Goto(h, "poll_payments")
        /\ Step(h, "poll_paid")
  /\ UNCHANGED <<conversations, disk, pendingPayments, nextOrder, now,
                 postPaymentTriggers, pdfGenerations>>

\* razorpay.orders.fetchPayments resolved or rejected
PollPayments(h) ==
  /\ handlers[h].pc = "poll_payments"
  /\ \/ /\ UNCHANGED pendingPayments
        /\ Step(h, "poll_uncaptured")
     \/ /\ pendingPayments' =
             updatePaymentFromWebhook(pendingPayments, handlers[h].order,
                                      CHOOSE p \in PaymentIds : TRUE, now)
        /\ Step(h, "poll_completed")
  /\ Finish(h)
  /\ UNCHANGED <<conversations, disk, nextOrder, now, postPaymentTriggers,
                 pdfGenerations>>

\* steps of handleMessage and its callees
ResumeMessage(h) ==
  \/ SendThenSave(h)
  \/ TrySend(h)
  \/ CatchSend(h)
  \/ ImgAck(h)
  \/ ImgDownload(h)
  \/ ImgAnalyze(h)
  \/ ImgTrySend(h)
  \/ ImgFailSend(h)
  \/ PdfCreate(h)
  \/ PdfSend(h)
  \/ ChkSend(h)

\* steps of checkPaymentStatus once it found a completed order
ResumeConfirmed(h) ==
  \/ ChkConfirmSend(h)
  \/ ChkFinalSend(h)

\* steps of the verification route and of the poll
ResumeGateway(h) ==
  \/ VpFetch(h)
  \/ VpSend(h)
  \/ PollOrder(h)
  \/ PollPayments(h)

MessageHandlerResumes == \E h \in Slots : ResumeMessage(h)

HandlerResumes ==
  \E h \in Slots : ResumeMessage(h) \/ ResumeConfirmed(h) \/ ResumeGateway(h)

\* The whole system, one request in flight at a time (webhooks and the
\* clock still fall between its awaits).
Next ==
  \/ MessageArrivesSeq
  \/ WebhookArrives
  \/ VerifyArrivesSeq
  \/ PollArrivesSeq
  \/ HandlerResumes
  \/ Tick

Spec == Init /\ [][Next]_vars

\* The message handlers alone, several requests in flight: express serves
\* every POST as it arrives, whether or not an earlier one has finished.
NextChat ==
  \/ MessageArrives
  \/ MessageHandlerResumes
  \/ Tick

SpecChat == Init /\ [][NextChat]_vars

\* The session store over restarts: the 5-minute flush and the reload at
\* boot.  A suspended handler is resumed when its collaborator answers or
\* its axios timeout fires, hence the weak fairness.
NextStore ==
  \/ MessageArrivesSeq
  \/ MessageHandlerResumes
  \/ saveAllConversations
  \/ loadConversations

SpecStore == Init /\ [][NextStore]_vars /\ WF_vars(MessageHandlerResumes)

\* the chat handlers, checkPaymentStatus included
ChatHandlerResumes ==
  \E h \in Slots : ResumeMessage(h) \/ ResumeConfirmed(h)

\* the session store over time: messages one at a time and the cleanup
\* timer
NextManager ==
  \/ MessageArrivesSeq
  \/ MessageHandlerResumes
  \/ MonthPasses
  \/ cleanupOldConversations

SpecManager == Init /\ [][NextManager]_vars

\* the session store with createConversation as a method of its own
NextCreate ==
  \/ MessageArrivesSeq
  \/ MessageHandlerResumes
  \/ CreateCalled

SpecCreate == Init /\ [][NextCreate]_vars

\* several users, one request at a time, with the gateway's webhooks
NextUsers ==
  \/ MessageArrivesAll
  \/ CapturedArrives
  \/ ChatHandlerResumes

SpecUsers == Init /\ [][NextUsers]_vars

\* concurrent chat requests with the gateway's webhooks
NextPaid ==
  \/ MessageArrives
  \/ CapturedArrives
  \/ ChatHandlerResumes

SpecPaid == Init /\ [][NextPaid]_vars

\* ================================================================ claims
InState(u, state) ==
  u \in DOMAIN conversations /\ conversations[u].state = state

\* C1: a payment-completed event delivered twice for the same order fires
\* the post-payment trigger once: no order is ever triggered twice.
C1_OneTriggerPerOrder ==
  \A o \in OrderIds : postPaymentTriggers[o] <= 1

\* C2: once an order's status is completed or failed, no step changes it.
C2_TerminalStatusIsFinal ==
  [][\A o \in DOMAIN pendingPayments \cap DOMAIN pendingPayments' :
        pendingPayments[o].status \in {"completed", "failed"}
          => pendingPayments'[o].status = pendingPayments[o].status]_vars

\* C3: in every reachable state every session's state is one of the seven
\* enumerated states.
C3_StateInEnum ==
  \A u \in DOMAIN conversations :
    conversations[u].state \in
      {"initial", "guide_shown", "waiting_for_photo", "analyzing",
       "results_shown", "payment_pending", "completed"}

\* C4: a webhook or a payment verification whose signature does not match
\* leaves every order and every session as it was, and starts no handler
\* that could change them later.
C4_RejectedSignatureMutatesNothing ==
  [][lastEvent' = "rejected"
       => UNCHANGED <<pendingPayments, conversations, handlers>>]_vars

\* C4's case: an event has just been rejected while an unpaid order and
\* its session in payment_pending were there to be changed.
C4_Witness ==
  /\ lastEvent = "rejected"
  /\ \E o \in DOMAIN pendingPayments :
       /\ pendingPayments[o].status = "created"
       /\ InState(pendingPayments[o].phoneNumber, "payment_pending")

\* C5: a validly signed payment.captured webhook for an order in status
\* created whose session is in payment_pending completes the order, sets
\* completedAt and moves the session to completed.  (Only such a webhook
\* raises the order's trigger count.)
C5_CapturedWebhookCompletesSession ==
  [][\A o \in DOMAIN pendingPayments :
        /\ postPaymentTriggers'[o] = postPaymentTriggers[o] + 1
        /\ pendingPayments[o].status = "created"
        /\ InState(pendingPayments[o].phoneNumber, "payment_pending")
        => /\ pendingPayments'[o].status = "completed"
           /\ pendingPayments'[o].completedAt # NoTime
           /\ conversations'[pendingPayments[o].phoneNumber].state
                = "completed"]_vars

\* (a handler has left a suspension point when its pc has changed)
\* C6: when the poll or the verification resumes after its gateway call
\* and the order has meanwhile left status created (a webhook got there
\* first), it does not write the order again.
C6_WritesGatedOnCreated ==
  [][\A h \in Slots :
        /\ handlers[h].pc \in {"vp_fetch", "poll_payments"}
        /\ handlers'[h].pc # handlers[h].pc
        /\ handlers[h].order \in DOMAIN pendingPayments
        /\ pendingPayments[handlers[h].order].status # "created"
        => pendingPayments' = pendingPayments]_vars

\* C7: whenever the handling of a photo fails (the acknowledgement or the
\* download throws, the analyzer reports an error or times out, anything
\* in the try block throws), the session is in waiting_for_photo right
\* after the failure is handled.
C7_FailedAnalysisRevertsToWaiting ==
  [][\A h \in Slots :
        /\ handlers[h].pc \in {"img_ack", "img_download", "img_analyze",
                             "img_try_send"}
        /\ handlers'[h].pc # handlers[h].pc
        /\ lastEvent' = "image_failed"
        => conversations'[handlers[h].user].state = "waiting_for_photo"]_vars

\* C7's case: the analyzer has just reported an error for a photo that
\* was being analyzed.
C7_Witness ==
  /\ lastEvent = "image_failed"
  /\ \E h \in Slots :
       /\ handlers[h].pc = "img_try_send"
       /\ InState(handlers[h].user, "waiting_for_photo")

\* C8: a session that is in analyzing eventually leaves analyzing.
C8_AnalyzingEventuallyLeft ==
  \A u \in Users : InState(u, "analyzing") ~> ~InState(u, "analyzing")

\* C9: when the analysis returns and the session is no longer in
\* analyzing, the result changes neither its state nor its analysis.
C9_LateResultDiscarded ==
  [][\A h \in Slots :
        /\ handlers[h].pc = "img_analyze"
        /\ handlers'[h].pc # "img_analyze"
        /\ ~InState(handlers[h].user, "analyzing")
        => /\ conversations'[handlers[h].user].state
                = conversations[handlers[h].user].state
           /\ conversations'[handlers[h].user].analysis
                = conversations[handlers[h].user].analysis]_vars

\* C11: a text in which the classifier recognises no keyword, arriving in
\* any session state (initial for a user without a session), leaves the
\* state as it was, plans no change of state, and is answered by one send.
C11_UnknownTextKeepsState ==
  [][\A u \in Users : \A text \in Texts :
        /\ isUnknownText(text)
        /\ handleMessage(u, TextMessage(text), {1})
        => /\ conversations'[u].state =
                (IF u \in DOMAIN conversations
                   THEN conversations[u].state ELSE "initial")
           /\ \A h \in Slots :
                handlers'[h] # handlers[h]
                  => /\ handlers'[h].pc = "send_then_save"
                     /\ handlers'[h].next = "keep"]_vars

\* C12: when the payment check of a session in payment_pending takes its
\* "confirmed" branch, the order whose link the session holds is completed.
C12_ConfirmedOnlyIfOrderCompleted ==
  [][\A h \in Slots :
        /\ handlers[h].pc = "chk_send"
        /\ handlers'[h].pc = "chk_confirm_send"
        /\ InState(handlers[h].user, "payment_pending")
        => LET link == conversations[handlers[h].user].paymentLink IN
           /\ link \in DOMAIN pendingPayments
           /\ pendingPayments[link].status = "completed"]_vars

\* C13: the documents generated for a user are at most as many as the
\* orders of that user that have been completed (completedAt is set).
C13_OneDocumentPerCompletedOrder ==
  \A u \in Users :
    pdfGenerations[u] <=
      Cardinality({o \in PaymentsOf(pendingPayments, u) :
                     pendingPayments[o].completedAt # NoTime})

\* C14: no user has two orders in status created.
C14_OneCreatedOrderPerUser ==
  \A u \in Users :
    Cardinality({o \in PaymentsOf(pendingPayments, u) :
                   pendingPayments[o].status = "created"}) <= 1

\* C15: a session holds a payment link only in state payment_pending.
C15_LinkOnlyWhilePending ==
  \A u \in DOMAIN conversations :
    conversations[u].paymentLink # NoLink
      => conversations[u].state = "payment_pending"

\* C16: a session holds an analysis only in state results_shown,
\* payment_pending or completed.
C16_AnalysisOnlyAfterResults ==
  \A u \in DOMAIN conversations :
    conversations[u].analysis # NoAnalysis
      => conversations[u].state \in
           {"results_shown", "payment_pending", "completed"}

\* C17: for every order, completedAt is set exactly when the status is
\* completed and failureReason exactly when the status is failed.
C17_TimestampsMatchStatus ==
  \A o \in DOMAIN pendingPayments :
    /\ pendingPayments[o].completedAt # NoTime
         <=> pendingPayments[o].status = "completed"
    /\ pendingPayments[o].failureReason # "none"
         <=> pendingPayments[o].status = "failed"

\* C18: when the sending of the payment link throws, the order minted for
\* this event is not left in the order store.
C18_FailedLinkLeavesNoOrder ==
  [][\A h \in Slots :
        /\ handlers[h].pc = "pdf_send"
        /\ handlers'[h].pc = "send_then_save"
        => handlers[h].order \notin DOMAIN pendingPayments']_vars

\* C19: a text event without its text (the handler goes straight to the
\* catch of handleMessage) creates no session and changes no session.
C19_MalformedEventDropped ==
  [][\A h \in Slots :
        /\ handlers[h].pc = "idle"
        /\ handlers'[h].pc = "catch_send"
        => conversations' = conversations]_vars

\* C20: a restart loses no saved session: every session that has been
\* saved is there afterwards with all its saves.
C20_RestartKeepsSavedSessions ==
  [][loadConversations
       => \A u \in DOMAIN conversations :
            conversations[u].messageCount > 0
              => /\ u \in DOMAIN conversations'
                 /\ conversations'[u].messageCount
                      = conversations[u].messageCount]_vars

\* C21: createConversation for a user who has a session leaves that
\* session as it is.
C21_CreateKeepsExistingSession ==
  [][\A u \in Users :
        u \in DOMAIN conversations /\ createConversationCalled(u)
        => conversations'[u] = conversations[u]]_vars

\* C22: no step removes the session of a user who has an order in status
\* created or completed.
C22_PayingSessionNeverRemoved ==
  [][\A u \in DOMAIN conversations :
        (\E o \in PaymentsOf(pendingPayments, u) :
           pendingPayments[o].status \in {"created", "completed"})
        => u \in DOMAIN conversations']_vars

C24_MessageCountNeverDecreases ==
  [][\A u \in DOMAIN conversations \cap DOMAIN conversations' :
        conversations'[u].messageCount >= conversations[u].messageCount]_vars

\* C27: when the document is generated after a confirmed check, the
\* analysis it is built from is the one stored on the confirmed order.
C27_DocumentFromOrderSnapshot ==
  [][\A h \in Slots :
        /\ handlers[h].pc = "chk_confirm_send"
        /\ handlers'[h].pc = "chk_final_send"
        => LET u == handlers[h].user
               o == getPaymentByPhoneNumber(pendingPayments, u)
           IN /\ o \in DOMAIN pendingPayments
              /\ documentSource(conversations[u], pendingPayments[o])
                   = pendingPayments[o].analysis]_vars

\* C25: when a payment-failed event moves an order from created to failed,
\* the order gets a failureReason, no document is generated, no
\* post-payment action is triggered and no session changes (the owning
\* session stays in payment_pending).
C25_FailedPaymentKeepsSession ==
  [][\A o \in DOMAIN pendingPayments :
        /\ pendingPayments[o].status = "created"
        /\ pendingPayments'[o].status = "failed"
        => /\ pendingPayments'[o].failureReason # "none"
           /\ UNCHANGED <<conversations, pdfGenerations,
                          postPaymentTriggers, handlers>>]_vars

\* C25's case: an order has failed while its session waits in
\* payment_pending with the link of that order.
C25_Witness ==
  \E o \in DOMAIN pendingPayments :
    /\ pendingPayments[o].status = "failed"
    /\ pendingPayments[o].completedAt = NoTime
    /\ InState(pendingPayments[o].phoneNumber, "payment_pending")
    /\ conversations[pendingPayments[o].phoneNumber].paymentLink = o

\* C26: every step that completes an order in status created, by webhook,
\* verification or poll, has the side effect of the webhook's: the
\* post-payment actions of that order are triggered.
C26_CompletionAlwaysTriggers ==
  [][\A o \in DOMAIN pendingPayments :
        /\ pendingPayments[o].status = "created"
        /\ pendingPayments'[o].status = "completed"
        => postPaymentTriggers'[o] = postPaymentTriggers[o] + 1]_vars

\* C28: a request for the guide by text in results_shown starts the
\* creation of an order; when the gateway answers, an order in status
\* created exists for the user with the session's analysis; when the link
\* has been sent the session is saved in payment_pending with that link.
C28_BuyCreatesOrderAndPends ==
  [][/\ \A u \in Users : \A text \in BuyTexts :
          /\ InState(u, "results_shown")
          /\ conversations[u].analysis # NoAnalysis
          /\ handleMessage(u, TextMessage(text), {1})
          => \A h \in Slots :
               handlers'[h] # handlers[h] => handlers'[h].pc = "pdf_create"
     /\ \A h \in Slots :
          /\ handlers[h].pc = "pdf_create"
          /\ handlers'[h].pc = "pdf_send"
          => LET o == handlers'[h].order IN
             /\ o \notin DOMAIN pendingPayments
             /\ o \in DOMAIN pendingPayments'
             /\ pendingPayments'[o].status = "created"
             /\ pendingPayments'[o].phoneNumber = handlers[h].user
             /\ pendingPayments'[o].analysis = handlers[h].snap
     /\ \A h \in Slots :
          /\ handlers[h].pc = "pdf_send"
          /\ handlers'[h].pc = "idle"
          => LET u == handlers[h].user IN
             /\ conversations'[u].state = "payment_pending"
             /\ conversations'[u].paymentLink = handlers[h].order
             /\ conversations'[u].messageCount
                  = conversations[u].messageCount + 1]_vars

\* C28's case: the link has been sent: the session is in payment_pending
\* with the link of an order in status created, and no handler is running.
C28_Witness ==
  /\ \A h \in Slots : ~Busy(h)
  /\ \E u \in DOMAIN conversations :
       /\ conversations[u].state = "payment_pending"
       /\ conversations[u].paymentLink \in DOMAIN pendingPayments
       /\ pendingPayments[conversations[u].paymentLink].status = "created"
       /\ pendingPayments[conversations[u].paymentLink].phoneNumber = u

\* C29: a text from a user without a session creates the session in
\* state initial and sends the welcome; when the welcome has been sent the
\* session is saved in guide_shown.
C29_FirstTextWelcomes ==
  [][/\ \A u \in Users : \A text \in Texts :
          /\ u \notin DOMAIN conversations
          /\ handleMessage(u, TextMessage(text), {1})
          => /\ conversations'[u].state = "initial"
             /\ conversations'[u].messageCount = 0
             /\ \A h \in Slots :
                  handlers'[h] # handlers[h]
                    => /\ handlers'[h].pc = "send_then_save"
                       /\ handlers'[h].next = "guide_shown"
     /\ \A h \in Slots :
          /\ handlers[h].pc = "send_then_save"
          /\ handlers[h].next = "guide_shown"
          /\ handlers'[h].pc = "idle"
          => /\ conversations'[handlers[h].user].state = "guide_shown"
             /\ conversations'[handlers[h].user].messageCount
                  = conversations[handlers[h].user].messageCount + 1]_vars

\* C29's case: the first message of a user has been answered: the session
\* is in guide_shown after one save.
C29_Witness ==
  /\ \A h \in Slots : ~Busy(h)
  /\ \E u \in DOMAIN conversations :
       /\ conversations[u].state = "guide_shown"
       /\ conversations[u].messageCount = 1
       /\ conversations[u].analysis = NoAnalysis

\* C30: a photo with its url arriving in waiting_for_photo starts the
\* analysis; when the analyzer returns a record the session holds it and
\* is in results_shown; when the results and the options have been sent
\* the session is saved like that.
C30_AnalyzedPhotoShowsResults ==
  [][/\ \A h \in Slots :
          /\ handlers[h].pc = "idle"
          /\ handlers'[h].kind = "message"
          /\ handlers'[h].url
          /\ InState(handlers'[h].user, "waiting_for_photo")
          => handlers'[h].pc = "img_ack"
     /\ \A h \in Slots :
          /\ handlers[h].pc = "img_analyze"
          /\ handlers'[h].pc = "img_try_send"
          /\ lastEvent' # "image_failed"
          => /\ conversations'[handlers[h].user].state = "results_shown"
             /\ conversations'[handlers[h].user].analysis \in Analyses
     /\ \A h \in Slots :
          /\ handlers[h].pc = "img_try_send"
          /\ handlers'[h].pc = "idle"
          /\ InState(handlers[h].user, "results_shown")
          => /\ conversations'[handlers[h].user].state = "results_shown"
             /\ conversations'[handlers[h].user].analysis \in Analyses
             /\ conversations'[handlers[h].user].messageCount
                  = conversations[handlers[h].user].messageCount + 1]_vars

\* C30's case: the results of a photo have been sent: the session is in
\* results_shown with its analysis after a save, and no handler is running.
C30_Witness ==
  /\ \A h \in Slots : ~Busy(h)
  /\ \E u \in DOMAIN conversations :
       /\ conversations[u].state = "results_shown"
       /\ conversations[u].analysis \in Analyses
       /\ conversations[u].messageCount >= 1

\* C10: at most one handler is in flight for a given user at any time.
C10_OneHandlerPerUser ==
  \A u \in Users :
    Cardinality({h \in Slots : handlers[h].kind = "message"
                                /\ handlers[h].user = u}) <= 1

\* the order whose link the session of u holds is completed
LinkedOrderCompleted(u) ==
  /\ conversations[u].paymentLink \in DOMAIN pendingPayments
  /\ pendingPayments[conversations[u].paymentLink].status = "completed"

\* C31: a message that is not a request to start over, arriving for a
\* session in completed, leaves the session in completed and plans no
\* change of state.
C31_CompletedStaysCompleted ==
  [][\A u \in Users :
        InState(u, "completed")
        => \A message \in Messages \ RestartMessages :
             handleMessage(u, message, {1})
             => /\ conversations'[u].state = "completed"
                /\ \A h \in Slots :
                     handlers'[h] # handlers[h]
                       => handlers'[h].next = "keep"]_vars

\* C32: a message that is not a request to check the payment, arriving
\* for a session in payment_pending, leaves the session in payment_pending
\* and plans no change of state.
C32_PendingStaysPending ==
  [][\A u \in Users :
        InState(u, "payment_pending")
        => \A message \in Messages \ CheckMessages :
             handleMessage(u, message, {1})
             => /\ conversations'[u].state = "payment_pending"
                /\ \A h \in Slots :
                     handlers'[h] # handlers[h]
                       => handlers'[h].next = "keep"]_vars

\* C33: an image arriving while the session is not in waiting_for_photo
\* (in initial for a user without a session) changes neither the state nor
\* the analysis, starts no analysis and plans one send and no change of
\* state; when that send is done the session is saved with the same state
\* and analysis.
C33_ImageOutsideWaitingIgnored ==
  [][/\ \A u \in Users : \A message \in ImageMessages :
          LET before == IF u \in DOMAIN conversations
                          THEN conversations[u]
                          ELSE createConversation(now)
          IN /\ before.state # "waiting_for_photo"
             /\ handleMessage(u, message, Slots)
             => /\ conversations'[u].state = before.state
                /\ conversations'[u].analysis = before.analysis
                /\ \A h \in Slots :
                     handlers'[h] # handlers[h]
                       => /\ handlers'[h].pc = "send_then_save"
                          /\ handlers'[h].next = "keep"
     /\ \A h \in Slots :
          /\ handlers[h].pc = "send_then_save"
          /\ handlers[h].next = "keep"
          /\ handlers'[h].pc = "idle"
          => LET u == handlers[h].user IN
             /\ conversations'[u].state = conversations[u].state
             /\ conversations'[u].analysis = conversations[u].analysis]_vars

\* C33's case: a photo with its url is being answered while the session
\* shows the results of an earlier photo.
C33_Witness ==
  \E h \in Slots :
    /\ handlers[h].url
    /\ handlers[h].pc = "send_then_save"
    /\ handlers[h].next = "keep"
    /\ InState(handlers[h].user, "results_shown")
    /\ conversations[handlers[h].user].analysis \in Analyses

\* C34: a request to start over arriving for a session in results_shown
\* moves it to guide_shown without analysis and without payment link, and
\* leaves the user without an order in status created.
C34_RestartClearsActiveOrder ==
  [][\A u \in Users :
        InState(u, "results_shown")
        => \A message \in RestartMessages :
             handleMessage(u, message, {1})
             => /\ conversations'[u].state = "guide_shown"
                /\ conversations'[u].analysis = NoAnalysis
                /\ conversations'[u].paymentLink = NoLink
                /\ \A o \in PaymentsOf(pendingPayments', u) :
                     pendingPayments'[o].status # "created"]_vars

\* C35: whenever a session goes from payment_pending to completed, the
\* order whose link the session holds has been completed (its completedAt
\* is set).
C35_CompletedOnlyByLinkedOrder ==
  [][\A u \in Users :
        /\ InState(u, "payment_pending")
        /\ u \in DOMAIN conversations'
        /\ conversations'[u].state = "completed"
        => LET link == conversations[u].paymentLink IN
           /\ link \in DOMAIN pendingPayments
           /\ pendingPayments[link].completedAt # NoTime]_vars

\* C36: no user has two analyses in flight (two handlers waiting for the
\* analyzer).
C36_OneAnalysisInFlight ==
  \A u \in Users :
    Cardinality({h \in Slots : /\ handlers[h].user = u
                               /\ handlers[h].pc = "img_analyze"}) <= 1

\* C37: for a session in payment_pending whose linked order is completed,
\* a request to check the payment starts the check, and the check, when
\* its first message has been sent, takes the confirmed branch (which
\* generates the document).
C37_PaidUserGetsDocument ==
  [][/\ \A u \in Users :
          InState(u, "payment_pending") /\ LinkedOrderCompleted(u)
          => \A message \in CheckMessages :
               handleMessage(u, message, {1})
               => \A h \in Slots :
                    handlers'[h] # handlers[h]
                      => handlers'[h].pc = "chk_send"
     /\ \A h \in Slots :
          /\ handlers[h].pc = "chk_send"
          /\ handlers'[h].pc \notin {"chk_send", "catch_send"}
          /\ InState(handlers[h].user, "payment_pending")
          /\ LinkedOrderCompleted(handlers[h].user)
          => handlers'[h].pc = "chk_confirm_send"]_vars

\* C38: when createPaymentLink throws, no order is stored and no session
\* changes, and the handler is left with one send and no change of state;
\* when that send is done the session is saved with the state and the
\* payment link it had.
C38_FailedOrderLeavesNoTrace ==
  [][/\ \A h \in Slots :
          /\ handlers[h].pc = "pdf_create"
          /\ lastEvent' = "order_failed"
          => /\ pendingPayments' = pendingPayments
             /\ conversations' = conversations
             /\ handlers'[h].pc = "send_then_save"
             /\ handlers'[h].next = "keep"
     /\ \A h \in Slots :
          /\ handlers[h].pc = "send_then_save"
          /\ handlers[h].next = "keep"
          /\ handlers'[h].pc = "idle"
          => LET u == handlers[h].user IN
             /\ pendingPayments' = pendingPayments
             /\ conversations'[u].state = conversations[u].state
             /\ conversations'[u].paymentLink
                  = conversations[u].paymentLink]_vars

\* C38's case: createPaymentLink has just thrown for a session in
\* results_shown: the user has no order, the session no link, and the
\* failure message is about to be sent.
C38_Witness ==
  /\ lastEvent = "order_failed"
  /\ \E h \in Slots :
       /\ handlers[h].pc = "send_then_save"
       /\ InState(handlers[h].user, "results_shown")
       /\ conversations[handlers[h].user].paymentLink = NoLink
       /\ PaymentsOf(pendingPayments, handlers[h].user) = {}

\* C39: an order enters the store only in createPaymentLink, and
\* verifyPayment returns success only for an order of the store, which is
\* then completed.
C39_OnlyStoredOrdersVerified ==
  [][/\ DOMAIN pendingPayments' # DOMAIN pendingPayments
          => \E h \in Slots : /\ handlers[h].pc = "pdf_create"
                              /\ handlers'[h].pc = "pdf_send"
     /\ \A h \in Slots :
          /\ handlers[h].pc = "vp_fetch"
          /\ handlers'[h].pc # "vp_fetch"
          /\ lastEvent' = "verified"
          => /\ handlers[h].order \in DOMAIN pendingPayments'
             /\ pendingPayments'[handlers[h].order].status
                  = "completed"]_vars
====
